---- MODULE Spec2Model ----
(***************************************************************************)
(* Model of the sedind/micro request router: the route table (Router),     *)
(* the per-method radix tree, the dispatch policy of App.dispatchRequest   *)
(* and the pooled request Context.                                         *)
(*                                                                         *)
(* A path is a sequence of one-character strings (<<"/", "a">> is "/a");  *)
(* an HTTP method is a string.                                             *)
(***************************************************************************)
EXTENDS Naturals, Sequences, FiniteSets, TLC

(***************************************************************************)
(* Bounds of the model.                                                    *)
(***************************************************************************)
MaxRoutes == 2      \* Handle calls that reach addRoute, per behaviour
MaxTreeRoutes == 3  \* the same, where only the trie is exercised
MaxServed == 2      \* requests served through the Context pool
MaxProbes == 2      \* concurrent Lookup / allowed calls per worker
MaxLen == 4         \* longest path given to the normalizer, the examples aside
MaxStackLen == 4    \* longest middleware stack
MaxStacks == 2      \* MiddlewareStack objects: the first one and its clones
MaxArrays == 3      \* backing arrays allocated by append

(***************************************************************************)
(* Strings.                                                                *)
(***************************************************************************)
Last(s) == s[Len(s)]

DropFirst(s, k) == SubSeq(s, k + 1, Len(s))

HasPrefix(s, p) == Len(s) >= Len(p) /\ SubSeq(s, 1, Len(p)) = p

\* Number of leading characters s and t have in common.
RECURSIVE LongestCommonPrefix(_, _)
LongestCommonPrefix(s, t) ==
    IF s = <<>> \/ t = <<>> \/ s[1] # t[1] THEN 0
    ELSE 1 + LongestCommonPrefix(Tail(s), Tail(t))

\* Length of the leading part of s that holds no "/".
RECURSIVE SegmentEnd(_)
SegmentEnd(s) ==
    IF s = <<>> \/ s[1] = "/" THEN 0 ELSE 1 + SegmentEnd(Tail(s))

\* Length of the leading part of s that holds neither ":" nor "*".
RECURSIVE WildcardStart(_)
WildcardStart(s) ==
    IF s = <<>> \/ s[1] \in {":", "*"} THEN 0 ELSE 1 + WildcardStart(Tail(s))

ToLower(c) == CASE c = "A" -> "a" [] c = "B" -> "b" [] OTHER -> c

LowerPath(s) == [i \in 1..Len(s) |-> ToLower(s[i])]

\* The path with exactly one trailing "/" removed or added.
ToggleSlash(path) ==
    IF Len(path) > 1 /\ Last(path) = "/" THEN SubSeq(path, 1, Len(path) - 1)
    ELSE path \o <<"/">>

(***************************************************************************)
(* Path Normalizer.                                                        *)
(***************************************************************************)
\* The "/"-separated segments of p, empty ones included.
RECURSIVE SplitPath(_, _)
SplitPath(p, cur) ==
    IF p = <<>> THEN <<cur>>
    ELSE IF p[1] = "/" THEN <<cur>> \o SplitPath(Tail(p), <<>>)
    ELSE SplitPath(Tail(p), Append(cur, p[1]))

\* ".." dropped like "." without popping the previous segment.
RECURSIVE ResolveSegments_NoPop(_, _)
ResolveSegments_NoPop(segs, stack) ==
    IF segs = <<>> THEN stack
    ELSE LET s == Head(segs) IN
         IF s = <<>> \/ s = <<".">> \/ s = <<".", ".">>
         THEN ResolveSegments_NoPop(Tail(segs), stack)
         ELSE ResolveSegments_NoPop(Tail(segs), Append(stack, s))

\* Drops empty and "." segments; ".." pops the previous segment, if any.
RECURSIVE ResolveSegments(_, _)
ResolveSegments(segs, stack) ==
    IF segs = <<>> THEN stack
    ELSE LET s == Head(segs) IN
         IF s = <<>> \/ s = <<".">> THEN ResolveSegments(Tail(segs), stack)
         ELSE IF s = <<".", ".">>
              THEN ResolveSegments(Tail(segs),
                       IF stack = <<>> THEN stack
                       ELSE SubSeq(stack, 1, Len(stack) - 1))
              ELSE ResolveSegments(Tail(segs), Append(stack, s))

RECURSIVE JoinSegments(_)
JoinSegments(stack) ==
    IF stack = <<>> THEN <<>>
    ELSE <<"/">> \o Head(stack) \o JoinSegments(Tail(stack))

\* CleanPath dropping the trailing "/" of its input.
CleanPath_NoTrailing(p) ==
    LET stack == ResolveSegments(SplitPath(p, <<>>), <<>>)
    IN  IF stack = <<>> THEN <<"/">> ELSE JoinSegments(stack)

CleanPath(p) ==
    LET stack == ResolveSegments(SplitPath(p, <<>>), <<>>)
    IN  IF stack = <<>> THEN <<"/">>
        ELSE JoinSegments(stack)
                 \o (IF p # <<>> /\ Last(p) = "/" THEN <<"/">> ELSE <<>>)

(***************************************************************************)
(* Trie Node.                                                              *)
(***************************************************************************)
NoRoute == [nil |-> TRUE]

\* What addRoute yields when the registration fails fatally.
Conflict == [conflict |-> TRUE]

\* new(node)
EmptyNode ==
    [prefix |-> <<>>, kind |-> "static", children |-> <<>>, indices |-> <<>>,
     priority |-> 0, route |-> NoRoute]

Leaf(prefix, kind, route) ==
    [prefix |-> prefix, kind |-> kind, children |-> <<>>, indices |-> <<>>,
     priority |-> 1, route |-> route]

\* The wild child, when there is one, is the last child and has no index.
HasWild(n) == Len(n.children) > Len(n.indices)

WildChild(n) == Last(n.children)

\* insertChild taking a catch-all like a param: what follows its name
\* becomes a child.
RECURSIVE insertChild_AnyWild(_, _)
insertChild_AnyWild(path, route) ==
    LET isWild == path[1] \in {":", "*"}
        k == IF isWild THEN SegmentEnd(path) ELSE WildcardStart(path)
        kind == IF path[1] = ":" THEN "param"
                ELSE IF path[1] = "*" THEN "catchAll" ELSE "static"
        rest == DropFirst(path, k)
    IN  IF rest = <<>> THEN Leaf(path, kind, route)
        ELSE LET c == insertChild_AnyWild(rest, route) IN
             [prefix |-> SubSeq(path, 1, k), kind |-> kind,
              children |-> <<c>>,
              indices |-> IF c.kind = "static" THEN <<rest[1]>> ELSE <<>>,
              priority |-> 1, route |-> NoRoute]

\* The chain of fresh nodes holding path, the route bound to its last node.
RECURSIVE insertChild(_, _)
insertChild(path, route) ==
    IF path[1] = "*"
    THEN IF SegmentEnd(path) < Len(path) THEN Conflict
         ELSE Leaf(path, "catchAll", route)
    ELSE LET isParam == path[1] = ":"
             k == IF isParam THEN SegmentEnd(path) ELSE WildcardStart(path)
             kind == IF isParam THEN "param" ELSE "static"
             rest == DropFirst(path, k)
         IN  IF rest = <<>> THEN Leaf(path, kind, route)
             ELSE LET c == insertChild(rest, route) IN
                  IF c = Conflict THEN Conflict
                  ELSE [prefix |-> SubSeq(path, 1, k), kind |-> kind,
                        children |-> <<c>>,
                        indices |-> IF c.kind = "static" THEN <<rest[1]>> ELSE <<>>,
                        priority |-> 1, route |-> NoRoute]

\* Position of the static child whose first byte is c (0: none).
ChildIndex(n, c) ==
    IF \E j \in 1..Len(n.indices) : n.indices[j] = c
    THEN CHOOSE j \in 1..Len(n.indices) : n.indices[j] = c
    ELSE 0

\* s with its element at position from moved to position to (to <= from).
MoveForward(s, from, to) ==
    [j \in 1..Len(s) |->
        IF j < to \/ j > from THEN s[j]
        ELSE IF j = to THEN s[from] ELSE s[j - 1]]

\* The re-sort moving the child and leaving indices as it was.
ReplaceChild_ChildrenOnly(n, k, c) ==
    LET to == CHOOSE t \in 1..k :
                  /\ \A j \in t..(k - 1) : n.children[j].priority < c.priority
                  /\ (t = 1 \/ n.children[t - 1].priority >= c.priority)
        kids == [n.children EXCEPT ![k] = c]
    IN  IF k > Len(n.indices) THEN [n EXCEPT !.children = kids]
        ELSE [n EXCEPT !.children = MoveForward(kids, k, to)]

\* Child k of n replaced by c, then moved in front of the siblings of lower
\* priority (the static children stay sorted by descending priority).
ReplaceChild(n, k, c) ==
    LET to == CHOOSE t \in 1..k :
                  /\ \A j \in t..(k - 1) : n.children[j].priority < c.priority
                  /\ (t = 1 \/ n.children[t - 1].priority >= c.priority)
        kids == [n.children EXCEPT ![k] = c]
    IN  IF k > Len(n.indices) THEN [n EXCEPT !.children = kids]
        ELSE [n EXCEPT !.children = MoveForward(kids, k, to),
                       !.indices = MoveForward(n.indices, k, to)]

\* The split leaving the route of n on the parent.
SplitNode_KeepRoute(n, i) ==
    IF i >= Len(n.prefix) THEN n
    ELSE [prefix |-> SubSeq(n.prefix, 1, i), kind |-> "static",
          children |-> <<[n EXCEPT !.prefix = DropFirst(n.prefix, i),
                                   !.route = NoRoute]>>,
          indices |-> <<n.prefix[i + 1]>>,
          priority |-> n.priority, route |-> n.route]

\* n split at byte i of its prefix: a parent holding the shared prefix and one
\* child holding the remainder with the route and the children of n.
SplitNode(n, i) ==
    IF i >= Len(n.prefix) THEN n
    ELSE [prefix |-> SubSeq(n.prefix, 1, i), kind |-> "static",
          children |-> <<[n EXCEPT !.prefix = DropFirst(n.prefix, i)]>>,
          indices |-> <<n.prefix[i + 1]>>,
          priority |-> n.priority, route |-> NoRoute]

\* The static child appended behind every child, the wild child included.
AddStaticChild_AtEnd(m, c, byte) ==
    [m EXCEPT !.indices = Append(@, byte), !.children = Append(@, c)]

\* m with the new static child c, indexed by its first byte, behind the
\* static children and in front of the wild child.
AddStaticChild(m, c, byte) ==
    LET ns == Len(m.indices) IN
    [m EXCEPT !.indices = Append(@, byte),
              !.children = SubSeq(@, 1, ns) \o <<c>> \o SubSeq(@, ns + 1, Len(@))]

RECURSIVE addRoute(_, _, _)
addRoute(n, path, route) ==
    IF n.prefix = <<>> /\ n.children = <<>> THEN insertChild(path, route)
    ELSE
    LET i == IF n.kind = "static" THEN LongestCommonPrefix(path, n.prefix)
             ELSE Len(n.prefix)
        m == [SplitNode(n, i) EXCEPT !.priority = @ + 1]
        rest == DropFirst(path, i)
    IN  IF rest = <<>>
        THEN IF m.route # NoRoute THEN Conflict ELSE [m EXCEPT !.route = route]
        ELSE IF rest[1] \in {":", "*"}
        THEN IF HasWild(m)
             THEN LET w == WildChild(m) IN
                  IF /\ w.kind = "param"
                     /\ SubSeq(rest, 1, SegmentEnd(rest)) = w.prefix
                  THEN LET c == addRoute(w, rest, route) IN
                       IF c = Conflict THEN Conflict
                       ELSE ReplaceChild(m, Len(m.children), c)
                  ELSE Conflict
             ELSE LET c == insertChild(rest, route) IN
                  IF c = Conflict THEN Conflict
                  ELSE [m EXCEPT !.children = Append(@, c)]
        ELSE LET k == ChildIndex(m, rest[1]) IN
             IF k > 0
             THEN LET c == addRoute(m.children[k], rest, route) IN
                  IF c = Conflict THEN Conflict ELSE ReplaceChild(m, k, c)
             ELSE LET c == insertChild(rest, route) IN
                  IF c = Conflict THEN Conflict
                  ELSE AddStaticChild(m, c, rest[1])

\* The walk of getValue: strips what n matches off path, then descends into
\* the static child indexed by the next byte, else into the wild child.
RECURSIVE walk(_, _, _)
walk(n, path, ps) ==
    IF n.kind = "catchAll"
    THEN [route |-> n.route,
          ps |-> Append(ps, [Key |-> Tail(n.prefix), Value |-> path])]
    ELSE IF n.kind = "static" /\ ~HasPrefix(path, n.prefix)
    THEN [route |-> NoRoute, ps |-> ps]
    ELSE
    LET k == IF n.kind = "static" THEN Len(n.prefix) ELSE SegmentEnd(path)
        ps2 == IF n.kind = "param"
               THEN Append(ps, [Key |-> Tail(n.prefix), Value |-> SubSeq(path, 1, k)])
               ELSE ps
        rest == DropFirst(path, k)
    IN  IF rest = <<>> THEN [route |-> n.route, ps |-> ps2]
        ELSE IF ChildIndex(n, rest[1]) > 0
        THEN walk(n.children[ChildIndex(n, rest[1])], rest, ps2)
        ELSE IF HasWild(n) THEN walk(WildChild(n), rest, ps2)
        ELSE [route |-> NoRoute, ps |-> ps2]

\* getValue recommending only the path with a "/" added.
getValue_AddOnly(n, path) ==
    LET m == walk(n, path, <<>>) IN
    IF m.route # NoRoute THEN [route |-> m.route, ps |-> m.ps, tsr |-> FALSE]
    ELSE [route |-> NoRoute, ps |-> m.ps,
          tsr |-> walk(n, path \o <<"/">>, <<>>).route # NoRoute]

getValue(n, path) ==
    LET m == walk(n, path, <<>>) IN
    IF m.route # NoRoute THEN [route |-> m.route, ps |-> m.ps, tsr |-> FALSE]
    ELSE [route |-> NoRoute, ps |-> m.ps,
          tsr |-> walk(n, ToggleSlash(path), <<>>).route # NoRoute]

NotFound == [path |-> <<>>, found |-> FALSE]

\* Depth-first, case-insensitive walk; acc is the canonical path so far.
RECURSIVE ciWalk(_, _, _)
ciWalk(n, path, acc) ==
    IF n.kind = "catchAll" THEN [path |-> acc \o path, found |-> TRUE]
    ELSE IF n.kind = "static" /\ ~HasPrefix(LowerPath(path), LowerPath(n.prefix))
    THEN NotFound
    ELSE
    LET k == IF n.kind = "static" THEN Len(n.prefix) ELSE SegmentEnd(path)
        acc2 == acc \o (IF n.kind = "static" THEN n.prefix ELSE SubSeq(path, 1, k))
        rest == DropFirst(path, k)
        cands == SelectSeq([j \in 1..Len(n.children) |-> j],
                     LAMBDA j : \/ j > Len(n.indices)
                                \/ ToLower(n.indices[j]) = ToLower(rest[1]))
        res == [j \in 1..Len(cands) |-> ciWalk(n.children[cands[j]], rest, acc2)]
        hits == {j \in 1..Len(cands) : res[j].found}
    IN  IF rest = <<>>
        THEN IF n.route # NoRoute THEN [path |-> acc2, found |-> TRUE] ELSE NotFound
        ELSE IF hits = {} THEN NotFound
        ELSE res[CHOOSE j \in hits : \A h \in hits : j <= h]

findCaseInsensitivePath(n, path, fixTrailingSlash) ==
    LET r == ciWalk(n, path, <<>>) IN
    IF r.found \/ ~fixTrailingSlash THEN r
    ELSE ciWalk(n, ToggleSlash(path), <<>>)

(***************************************************************************)
(* Route Table (Router).                                                   *)
(***************************************************************************)
NilHandler == [nil |-> TRUE]

\* Go's byte-wise order of the method strings of the model.
MethodOrder == <<"CONNECT", "GET", "HEAD", "OPTIONS", "POST">>

Rank(m) == CHOOSE i \in 1..Len(MethodOrder) : MethodOrder[i] = m

StrLess(a, b) == Rank(a) < Rank(b)

\* r.trees[method]: the root of the method, nil for a method without tree.
NilNode == [nil |-> TRUE]

TreeOf(t, method) == IF method \in DOMAIN t THEN t[method] ELSE NilNode

\* r.trees[method] = root
SetTree(t, method, root) ==
    [m \in DOMAIN t \cup {method} |-> IF m = method THEN root ELSE t[m]]

\* Handle creating the tree of the method before it checks the handler.
Handle_TreeFirst(t, method, path, handler) ==
    IF method = ""
    THEN [trees |-> t, panic |-> "method must not be empty"]
    ELSE IF Len(path) < 1 \/ path[1] # "/"
    THEN [trees |-> t, panic |-> "path must begin with '/'"]
    ELSE
    LET root == IF TreeOf(t, method) = NilNode THEN EmptyNode ELSE t[method]
        route == [Method |-> method, Path |-> path, Handler |-> handler]
        added == addRoute(root, path, route)
    IN  IF handler = NilHandler
        THEN [trees |-> SetTree(t, method, root),
              panic |-> "handler must not be nil"]
        ELSE IF added = Conflict
        THEN [trees |-> SetTree(t, method, root), panic |-> "addRoute"]
        ELSE [trees |-> SetTree(t, method, added), panic |-> ""]

\* Handle adding every route to one tree shared by the methods.
Handle_SharedTree(t, method, path, handler) ==
    IF method = ""
    THEN [trees |-> t, panic |-> "method must not be empty"]
    ELSE IF Len(path) < 1 \/ path[1] # "/"
    THEN [trees |-> t, panic |-> "path must begin with '/'"]
    ELSE IF handler = NilHandler
    THEN [trees |-> t, panic |-> "handler must not be nil"]
    ELSE
    LET root == IF DOMAIN t = {} THEN EmptyNode
                ELSE t[CHOOSE m \in DOMAIN t : TRUE]
        route == [Method |-> method, Path |-> path, Handler |-> handler]
        added == addRoute(root, path, route)
    IN  IF added = Conflict
        THEN [trees |-> SetTree(t, method, root), panic |-> "addRoute"]
        ELSE [trees |-> SetTree(t, method, added), panic |-> ""]

\* Router.Handle on the route table t: the table after the call and the
\* panic that ended it ("" when it returned).
Handle(t, method, path, handler) ==
    IF method = ""
    THEN [trees |-> t, panic |-> "method must not be empty"]
    ELSE IF Len(path) < 1 \/ path[1] # "/"
    THEN [trees |-> t, panic |-> "path must begin with '/'"]
    ELSE IF handler = NilHandler
    THEN [trees |-> t, panic |-> "handler must not be nil"]
    ELSE
    LET root == IF TreeOf(t, method) = NilNode THEN EmptyNode ELSE t[method]
        route == [Method |-> method, Path |-> path, Handler |-> handler]
        added == addRoute(root, path, route)
    IN  IF added = Conflict
        THEN [trees |-> SetTree(t, method, root), panic |-> "addRoute"]
        ELSE [trees |-> SetTree(t, method, added), panic |-> ""]

\* Lookup falling back to the tree of GET for a method without tree.
Lookup_Fallback(t, method, path) ==
    IF TreeOf(t, method) # NilNode THEN getValue(t[method], path)
    ELSE IF TreeOf(t, "GET") # NilNode THEN getValue(t["GET"], path)
    ELSE [route |-> NoRoute, ps |-> <<>>, tsr |-> FALSE]

Lookup(t, method, path) ==
    IF TreeOf(t, method) # NilNode THEN getValue(t[method], path)
    ELSE [route |-> NoRoute, ps |-> <<>>, tsr |-> FALSE]

\* The inner loop of the sort of allowed: a[j] sinks while it is less than
\* its predecessor.
RECURSIVE SinkBack(_, _)
SinkBack(a, j) ==
    IF j > 1 /\ StrLess(a[j], a[j - 1])
    THEN SinkBack([a EXCEPT ![j] = a[j - 1], ![j - 1] = a[j]], j - 1)
    ELSE a

RECURSIVE InsertionSort(_, _)
InsertionSort(a, i) ==
    IF i > Len(a) THEN a ELSE InsertionSort(SinkBack(a, i), i + 1)

\* strings.Join(a, ", ")
RECURSIVE Join(_)
Join(a) ==
    IF a = <<>> THEN ""
    ELSE IF Len(a) = 1 THEN a[1]
    ELSE a[1] \o ", " \o Join(Tail(a))

\* The loop of allowed without the OPTIONS exemption of the server-wide case.
Probe_KeepOptions(t, method, path, reqMethod) ==
    IF path = <<"*">> THEN TRUE
    ELSE /\ method # reqMethod
         /\ method # "OPTIONS"
         /\ getValue(t[method], path).route # NoRoute

\* Whether the loop of allowed appends method (one iteration of the range).
Probe(t, method, path, reqMethod) ==
    IF path = <<"*">> THEN method # "OPTIONS"
    ELSE /\ method # reqMethod
         /\ method # "OPTIONS"
         /\ getValue(t[method], path).route # NoRoute

\* allowed without its sort.
Finish_Unsorted(found) ==
    IF Len(found) > 0 THEN Join(Append(found, "OPTIONS")) ELSE ""

\* What allowed returns for the methods it has appended.
Finish(found) ==
    IF Len(found) > 0 THEN Join(InsertionSort(Append(found, "OPTIONS"), 2))
    ELSE ""

\* Router.allowed; order is the order in which range visits the map.
allowed(t, order, path, reqMethod) ==
    Finish(SelectSeq(order, LAMBDA m : Probe(t, m, path, reqMethod)))

\* The orders in which range may visit the keys of the map t.
RangeOrders(t) ==
    {o \in [1..Cardinality(DOMAIN t) -> DOMAIN t] :
        \A i, j \in DOMAIN o : i # j => o[i] # o[j]}

(***************************************************************************)
(* Context and Dispatch Policy (App).                                      *)
(***************************************************************************)
StatusMovedPermanently == 301
StatusPermanentRedirect == 308
StatusMethodNotAllowed == 405
StatusNotFound == 404

\* NewOptions: the defaults of the three routing options.
DefaultOptions ==
    [RedirectTrailingSlash |-> TRUE, RedirectFixedPath |-> TRUE,
     HandleMethodNotAllowed |-> TRUE]

\* allocateContext: &Context{}. Params is a slice: its backing array and
\* its length.
NewContext == [Params |-> [arr |-> <<>>, len |-> 0]]

\* What ranging over the slice yields.
Visible(params) == SubSeq(params.arr, 1, params.len)

\* reset leaving the slice as it is.
reset_Keep(c) == c

\* c.Params = c.Params[0:0]
reset(c) == [c EXCEPT !.Params.len = 0]

\* c.Params = ps
SetParams(c, ps) == [c EXCEPT !.Params = [arr |-> ps, len |-> Len(ps)]]

\* The redirect code with HEAD treated like GET.
RedirectCode_GetOrHead(method) ==
    IF method \notin {"GET", "HEAD"} THEN StatusPermanentRedirect
    ELSE StatusMovedPermanently

RedirectCode(method) ==
    IF method # "GET" THEN StatusPermanentRedirect ELSE StatusMovedPermanently

\* The redirect always adding a "/".
RedirectTarget_Append(path) == path \o <<"/">>

\* The path a trailing-slash redirect points to.
RedirectTarget(path) ==
    IF Len(path) > 1 /\ Last(path) = "/" THEN SubSeq(path, 1, Len(path) - 1)
    ELSE path \o <<"/">>

Redirect(code, location) ==
    [kind |-> "redirect", code |-> code, location |-> location]

\* ErrorResult(code, err).Handle(c), with the Allow header of the response.
ErrorResponse(code, allow) == [kind |-> "error", code |-> code, allow |-> allow]

\* handleAction: the handler runs and sees the parameters of the context.
Invoke(c, handler) ==
    [kind |-> "handler", handler |-> handler, params |-> Visible(c.Params)]

\* The end of dispatchRequest without the HandleMethodNotAllowed switch.
NotAllowedOrNotFound_Always(t, o, order, c, method, path, calls) ==
    LET allow == allowed(t, order, path, method) IN
    [out |-> IF allow # ""
             THEN <<ErrorResponse(StatusMethodNotAllowed, allow)>>
             ELSE <<ErrorResponse(StatusNotFound, "")>>,
     calls |-> Append(calls, "allowed"), c |-> c]

\* The end of dispatchRequest: 405 with the Allow header, else 404.
NotAllowedOrNotFound(t, o, order, c, method, path, calls) ==
    IF o.HandleMethodNotAllowed
    THEN LET allow == allowed(t, order, path, method) IN
         [out |-> IF allow # ""
                  THEN <<ErrorResponse(StatusMethodNotAllowed, allow)>>
                  ELSE <<ErrorResponse(StatusNotFound, "")>>,
          calls |-> Append(calls, "allowed"), c |-> c]
    ELSE [out |-> <<ErrorResponse(StatusNotFound, "")>>, calls |-> calls, c |-> c]

\* dispatchRequest without the return that follows handleAction.
dispatchRequest_NoReturn(t, o, order, c, method, path) ==
    LET root == TreeOf(t, method)
        gv == getValue(root, path)
        c2 == SetParams(c, gv.ps)
        rest == NotAllowedOrNotFound(t, o, order, c2, method, path, <<"getValue">>)
    IN  IF root = NilNode
        THEN NotAllowedOrNotFound(t, o, order, c, method, path, <<>>)
        ELSE IF gv.route # NoRoute
        THEN [rest EXCEPT !.out = <<Invoke(c2, gv.route.Handler)>> \o @]
        ELSE NotAllowedOrNotFound(t, o, order, c, method, path, <<"getValue">>)

\* dispatchRequest trying the case-insensitive fix before the trailing slash.
dispatchRequest_FixFirst(t, o, order, c, method, path) ==
    LET root == TreeOf(t, method)
        gv == getValue(root, path)
        fixed == findCaseInsensitivePath(root, CleanPath(path),
                                         o.RedirectTrailingSlash)
    IN  IF root = NilNode
        THEN NotAllowedOrNotFound(t, o, order, c, method, path, <<>>)
        ELSE IF gv.route # NoRoute
        THEN [out |-> <<Invoke(SetParams(c, gv.ps), gv.route.Handler)>>,
              calls |-> <<"getValue">>, c |-> SetParams(c, gv.ps)]
        ELSE IF method # "CONNECT" /\ path # <<"/">>
        THEN IF o.RedirectFixedPath /\ fixed.found
             THEN [out |-> <<Redirect(RedirectCode(method), fixed.path)>>,
                   calls |-> <<"getValue", "findCaseInsensitivePath">>,
                   c |-> c]
             ELSE IF gv.tsr /\ o.RedirectTrailingSlash
             THEN [out |-> <<Redirect(RedirectCode(method), RedirectTarget(path))>>,
                   calls |-> IF o.RedirectFixedPath
                             THEN <<"getValue", "findCaseInsensitivePath">>
                             ELSE <<"getValue">>,
                   c |-> c]
             ELSE NotAllowedOrNotFound(t, o, order, c, method, path,
                      IF o.RedirectFixedPath
                      THEN <<"getValue", "findCaseInsensitivePath">>
                      ELSE <<"getValue">>)
        ELSE NotAllowedOrNotFound(t, o, order, c, method, path, <<"getValue">>)

\* dispatchRequest redirecting CONNECT requests and requests for "/" as well.
dispatchRequest_NoExempt(t, o, order, c, method, path) ==
    LET root == TreeOf(t, method)
        gv == getValue(root, path)
        fixed == findCaseInsensitivePath(root, CleanPath(path),
                                         o.RedirectTrailingSlash)
    IN  IF root = NilNode
        THEN NotAllowedOrNotFound(t, o, order, c, method, path, <<>>)
        ELSE IF gv.route # NoRoute
        THEN [out |-> <<Invoke(SetParams(c, gv.ps), gv.route.Handler)>>,
              calls |-> <<"getValue">>, c |-> SetParams(c, gv.ps)]
        ELSE IF gv.tsr /\ o.RedirectTrailingSlash
        THEN [out |-> <<Redirect(RedirectCode(method), RedirectTarget(path))>>,
              calls |-> <<"getValue">>, c |-> c]
        ELSE IF o.RedirectFixedPath
        THEN IF fixed.found
             THEN [out |-> <<Redirect(RedirectCode(method), fixed.path)>>,
                   calls |-> <<"getValue", "findCaseInsensitivePath">>,
                   c |-> c]
             ELSE NotAllowedOrNotFound(t, o, order, c, method, path,
                      <<"getValue", "findCaseInsensitivePath">>)
        ELSE NotAllowedOrNotFound(t, o, order, c, method, path, <<"getValue">>)

\* App.dispatchRequest for the request (method, path) on context c, with the
\* options o: the responses written and handlers run (out), the router
\* functions called, in order (calls), and the context afterwards (c).
dispatchRequest(t, o, order, c, method, path) ==
    LET root == TreeOf(t, method)
        gv == getValue(root, path)
        fixed == findCaseInsensitivePath(root, CleanPath(path),
                                         o.RedirectTrailingSlash)
    IN  IF root = NilNode
        THEN NotAllowedOrNotFound(t, o, order, c, method, path, <<>>)
        ELSE IF gv.route # NoRoute
        THEN [out |-> <<Invoke(SetParams(c, gv.ps), gv.route.Handler)>>,
              calls |-> <<"getValue">>, c |-> SetParams(c, gv.ps)]
        ELSE IF method # "CONNECT" /\ path # <<"/">>
        THEN IF gv.tsr /\ o.RedirectTrailingSlash
             THEN [out |-> <<Redirect(RedirectCode(method), RedirectTarget(path))>>,
                   calls |-> <<"getValue">>, c |-> c]
             ELSE IF o.RedirectFixedPath
             THEN IF fixed.found
                  THEN [out |-> <<Redirect(RedirectCode(method), fixed.path)>>,
                        calls |-> <<"getValue", "findCaseInsensitivePath">>,
                        c |-> c]
                  ELSE NotAllowedOrNotFound(t, o, order, c, method, path,
                           <<"getValue", "findCaseInsensitivePath">>)
             ELSE NotAllowedOrNotFound(t, o, order, c, method, path,
                      <<"getValue">>)
        ELSE NotAllowedOrNotFound(t, o, order, c, method, path, <<"getValue">>)

(***************************************************************************)
(* Inputs of the model.                                                    *)
(***************************************************************************)
RegMethods == {"GET", "HEAD", "OPTIONS"}

ReqMethods == {"GET", "HEAD", "OPTIONS", "POST", "CONNECT"}

Patterns ==
    {<<"/", "a">>, <<"/", "a", "/">>, <<"/", ":", "x">>, <<"/", "*", "y", "/", "a">>}

\* Patterns that Handle rejects before addRoute.
BadPatterns == {<<>>, <<"a">>}

ReqPaths ==
    {<<"/">>, <<"/", "a">>, <<"/", "a", "/">>, <<"/", "A">>, <<"/", "/", "a">>,
     <<"/", "b", "/">>, <<"*">>}

\* The handler registered for a route: one function per route.
HandlerOf(method, path) == [m |-> method, p |-> path]

(***************************************************************************)
(* State.                                                                  *)
(***************************************************************************)
VARIABLES
    trees,      \* Router.trees: method -> root node
    opts,       \* the routing options of the App
    added,      \* number of Handle calls that reached addRoute
    handled,    \* the routes registered by the Handle calls that returned
    last,       \* the call the caller has made, with its outcome; Idle
                \* once the caller has taken the outcome
    phase,      \* "setup" while routes are registered, then "serving"
    frozen,     \* the route table at the end of the setup
    pool,       \* App.pool: the contexts put back
    workers,    \* the goroutines that serve requests or query the router
    done,       \* number of requests and queries the goroutines completed
    arrays,     \* the backing arrays of the middleware slices
    stacks      \* the MiddlewareStack objects: the slice each one holds

vars ==
    <<trees, opts, added, handled, last, phase, frozen, pool, workers, done,
      arrays, stacks>>

\* What the operations of the middleware stacks work on.
middleware == <<arrays, stacks>>

\* What the goroutines of the serving phase work on.
serving == <<phase, frozen, pool, workers, done>>

Workers == {"w1", "w2"}

IdleWorker == [pc |-> "idle"]

Idle == [op |-> "idle"]

Init ==
    /\ trees = <<>>
    /\ opts \in [RedirectTrailingSlash : BOOLEAN, RedirectFixedPath : BOOLEAN,
                 HandleMethodNotAllowed : BOOLEAN]
    /\ added = 0
    /\ handled = {}
    /\ last = Idle
    /\ phase = "setup"
    /\ frozen = <<>>
    /\ pool = {}
    /\ workers = [w \in Workers |-> IdleWorker]
    /\ done = 0
    /\ arrays = <<>>
    /\ stacks = <<[arr |-> 0, len |-> 0, cap |-> 0]>>

\* The call Handle(method, path, handler) of the setup, one of at most
\* limit calls that reach addRoute.
RegisterWithin(limit, method, path, handler) ==
        LET r == Handle(trees, method, path, handler) IN
        /\ phase = "setup"
        /\ last = Idle
        /\ r.panic \in {"", "addRoute"} => added < limit
        /\ trees' = r.trees
        /\ added' = IF r.panic \in {"", "addRoute"} THEN added + 1 ELSE added
        /\ handled' = IF r.panic = ""
                      THEN handled \cup {[Method |-> method, Path |-> path,
                                          Handler |-> handler]}
                      ELSE handled
        /\ last' = [op |-> "Handle", method |-> method, path |-> path,
                    handler |-> handler, panic |-> r.panic]
        /\ UNCHANGED <<middleware, opts, serving>>

Register(method, path, handler) ==
    RegisterWithin(MaxRoutes, method, path, handler)

\* A call of Router.Handle (App.GET, App.POST, ...).
HandleCall ==
    \E method \in RegMethods \cup {""}, path \in Patterns \cup BadPatterns :
    \E handler \in {HandlerOf(method, path), NilHandler} :
        Register(method, path, handler)

\* A request dispatched on a context that ServeHTTP has just reset.
DispatchCall ==
    \E method \in ReqMethods, path \in ReqPaths, order \in RangeOrders(trees) :
        LET r == dispatchRequest(trees, opts, order, reset(NewContext),
                                 method, path) IN
        /\ last = Idle
        /\ last' = [op |-> "dispatchRequest", method |-> method, path |-> path,
                    out |-> r.out, calls |-> r.calls]
        /\ UNCHANGED <<middleware, trees, opts, added, handled, serving>>

\* The caller takes the outcome of its call and goes on.
Return ==
    /\ last # Idle
    /\ last' = Idle
    /\ UNCHANGED <<middleware, trees, opts, added, handled, serving>>

\* A call of Router.Lookup.
LookupCall ==
    \E method \in ReqMethods, path \in ReqPaths :
        /\ last = Idle
        /\ last' = [op |-> "Lookup", method |-> method, path |-> path,
                    result |-> Lookup(trees, method, path)]
        /\ UNCHANGED <<middleware, trees, opts, added, handled, serving>>

\* A call of Router.allowed.
AllowedCall ==
    \E method \in ReqMethods, path \in ReqPaths, order \in RangeOrders(trees) :
        /\ last = Idle
        /\ last' = [op |-> "allowed", method |-> method, path |-> path,
                    allow |-> allowed(trees, order, path, method)]
        /\ UNCHANGED <<middleware, trees, opts, added, handled, serving>>

Next == HandleCall \/ DispatchCall \/ LookupCall \/ AllowedCall \/ Return

Spec == Init /\ [][Next]_vars

(***************************************************************************)
(* Properties of the Dispatch Policy.                                      *)
(***************************************************************************)
AllMethods == {MethodOrder[i] : i \in 1..Len(MethodOrder)}

\* The elements of the set S of methods, in ascending order.
SortedSeqOf(S) ==
    CHOOSE q \in [1..Cardinality(S) -> S] :
        \A i, j \in 1..Cardinality(S) : i < j => StrLess(q[i], q[j])

\* The methods other than reqMethod and OPTIONS that have a route for path.
MatchingMethods(path, reqMethod) ==
    {m \in AllMethods \ {reqMethod, "OPTIONS"} :
        Lookup(trees, m, path).route # NoRoute}

\* The methods other than OPTIONS that have a tree.
TreeMethods == DOMAIN trees \ {"OPTIONS"}

\* The value of Allowed(path, reqMethod): empty when no method qualifies,
\* else the qualifying methods and OPTIONS, ascending and joined by ", ".
\* For a concrete path the methods other than reqMethod that have a route
\* for it qualify, for "*" the methods that have a tree.
AllowHeader(path, reqMethod) ==
    LET S == IF path = <<"*">> THEN TreeMethods
             ELSE MatchingMethods(path, reqMethod)
    IN  IF S = {} THEN "" ELSE Join(SortedSeqOf(S \cup {"OPTIONS"}))

Dispatched == last.op = "dispatchRequest"

\* The lookup of the request of the last call on the tree of its method.
LastLookup == Lookup(trees, last.method, last.path)

\* C1: every dispatched request ends in exactly one outcome (a handler run, a
\* redirect, a 405 or a 404), and when the tree of the request method holds
\* a route for the raw path the outcome is the run of that route's handler
\* with the parameters of that lookup, whatever the options.
C1_ExactMatchWins ==
    Dispatched =>
        /\ Len(last.out) = 1
        /\ \/ last.out[1].kind \in {"handler", "redirect"}
           \/ /\ last.out[1].kind = "error"
              /\ last.out[1].code \in {StatusMethodNotAllowed, StatusNotFound}
        /\ LastLookup.route # NoRoute =>
               /\ LastLookup.route \in handled
               /\ last.out = <<[kind |-> "handler",
                                handler |-> HandlerOf(LastLookup.route.Method,
                                                      LastLookup.route.Path),
                                params |-> LastLookup.ps]>>

C1_Witness ==
    /\ Dispatched
    /\ LastLookup.route # NoRoute
    /\ Len(LastLookup.ps) = 1
    /\ last.out[1].kind = "handler"
    /\ ~opts.RedirectTrailingSlash /\ ~opts.HandleMethodNotAllowed

Redirected == Dispatched /\ last.out[1].kind = "redirect"

\* C2 as stated: every redirect carries 301 for GET and HEAD and 308 for
\* every other method.
C2_AsClaimed ==
    Redirected =>
        last.out[1].code = IF last.method \in {"GET", "HEAD"}
                           THEN StatusMovedPermanently
                           ELSE StatusPermanentRedirect

\* C2: every redirect of the dispatch policy, trailing-slash and fixed-path
\* alike, carries 301 when the request method is GET and 308 for every
\* other method, HEAD included.
C2_RedirectCode ==
    Redirected =>
        last.out[1].code = IF last.method = "GET" THEN StatusMovedPermanently
                           ELSE StatusPermanentRedirect

C2_Witness ==
    /\ Redirected
    /\ last.method = "HEAD"
    /\ last.calls = <<"getValue", "findCaseInsensitivePath">>
    /\ last.out[1].code = StatusPermanentRedirect

\* A redirect applies to the request: its method has a tree without a route
\* for the path, the request is not exempt (CONNECT, path "/"), and either
\* the trailing-slash redirect or the fixed-path redirect is enabled and has
\* a target.
TrailingSlashApplies ==
    /\ last.method \in DOMAIN trees
    /\ LastLookup.route = NoRoute
    /\ last.method # "CONNECT" /\ last.path # <<"/">>
    /\ LastLookup.tsr /\ opts.RedirectTrailingSlash

FixedPathApplies ==
    /\ last.method \in DOMAIN trees
    /\ LastLookup.route = NoRoute
    /\ last.method # "CONNECT" /\ last.path # <<"/">>
    /\ opts.RedirectFixedPath
    /\ findCaseInsensitivePath(trees[last.method], CleanPath(last.path),
                               opts.RedirectTrailingSlash).found

InCalls(name) == \E i \in 1..Len(last.calls) : last.calls[i] = name

\* C3: within one request findCaseInsensitivePath is not invoked when the
\* lookup recommended a trailing slash and trailing-slash redirects are
\* enabled, and allowed is not consulted (no 405) when a trailing-slash or a
\* fixed-path redirect applies.
C3_CorrectionOrder ==
    Dispatched =>
        /\ (LastLookup.tsr /\ opts.RedirectTrailingSlash)
               => ~InCalls("findCaseInsensitivePath")
        /\ (TrailingSlashApplies \/ FixedPathApplies)
               => /\ ~InCalls("allowed")
                  /\ last.out[1].kind = "redirect"

C3_Witness ==
    /\ Dispatched
    /\ TrailingSlashApplies
    /\ FixedPathApplies
    /\ opts.HandleMethodNotAllowed
    /\ AllowHeader(last.path, last.method) # ""
    /\ last.calls = <<"getValue">>

\* The request got neither a handler nor a redirect.
Unmatched ==
    /\ Dispatched
    /\ LastLookup.route = NoRoute
    /\ last.out[1].kind # "redirect"

\* C4 as stated: an unmatched request gets 405 with the Allow header
\* whenever Allowed(path, method) is non-empty, and 404 exactly when it is
\* empty.
C4_AsClaimed ==
    Unmatched =>
        last.out = IF AllowHeader(last.path, last.method) # ""
                   THEN <<ErrorResponse(StatusMethodNotAllowed,
                                        AllowHeader(last.path, last.method))>>
                   ELSE <<ErrorResponse(StatusNotFound, "")>>

\* C4: a request without exact match on the tree of its method (a method
\* without tree included) and without redirect gets 405 with the Allow
\* header equal to Allowed(path, method) when HandleMethodNotAllowed is
\* enabled and that value is non-empty, and 404 otherwise.
C4_NotAllowedOrNotFound ==
    Unmatched =>
        last.out = IF /\ opts.HandleMethodNotAllowed
                      /\ AllowHeader(last.path, last.method) # ""
                   THEN <<ErrorResponse(StatusMethodNotAllowed,
                                        AllowHeader(last.path, last.method))>>
                   ELSE <<ErrorResponse(StatusNotFound, "")>>

C4_Witness ==
    /\ Unmatched
    /\ last.method \notin DOMAIN trees
    /\ last.path # <<"*">>
    /\ last.out[1].code = StatusMethodNotAllowed
    /\ last.out[1].allow = "GET, HEAD, OPTIONS"

(***************************************************************************)
(* Properties of the Route Table.                                          *)
(***************************************************************************)
AllowedCalled == last.op = "allowed"

\* C5: for a concrete path p and a method x, Allowed(p, x) is empty when no
\* method other than x and OPTIONS has a route matching p, and otherwise is
\* the ascending, duplicate-free, ", "-joined list of exactly those methods
\* plus OPTIONS.
C5_AllowedConcrete ==
    (AllowedCalled /\ last.path # <<"*">>) =>
        last.allow = AllowHeader(last.path, last.method)

C5_Witness ==
    /\ AllowedCalled
    /\ last.path = <<"/", "a">> /\ last.method = "POST"
    /\ handled = {[Method |-> "GET", Path |-> <<"/", "a">>,
                   Handler |-> HandlerOf("GET", <<"/", "a">>)]}
    /\ last.allow = "GET, OPTIONS"

\* The lists that name every method of the set S, and maybe more.
ListsNaming(S) ==
    {Join(SortedSeqOf(L)) : L \in {K \in SUBSET AllMethods : S \subseteq K}}

\* C6 as stated: Allowed("*", x) names every method that has a tree.
C6_AsClaimed ==
    (AllowedCalled /\ last.path = <<"*">>) =>
        last.allow \in ListsNaming(DOMAIN trees)

\* C6: Allowed("*", x) is empty when no method other than OPTIONS has a
\* tree; otherwise it lists, ascending, every method other than OPTIONS that
\* has a tree (x included when it has one) and OPTIONS, whether or not
\* OPTIONS has a tree.
C6_ServerWide ==
    (AllowedCalled /\ last.path = <<"*">>) =>
        last.allow = IF TreeMethods = {} THEN ""
                     ELSE Join(SortedSeqOf(TreeMethods \cup {"OPTIONS"}))

C6_Witness ==
    /\ AllowedCalled /\ last.path = <<"*">>
    /\ last.method = "HEAD"
    /\ DOMAIN trees = {"HEAD", "OPTIONS"}
    /\ last.allow = "HEAD, OPTIONS"

LookupCalled == last.op = "Lookup"

\* C7: Lookup(m, p) returns no route, no parameters and no trailing-slash
\* recommendation when no route was registered under m, and a route it
\* returns was registered by a Handle call with the method m.
C7_LookupPerMethod ==
    LookupCalled =>
        /\ (\A r \in handled : r.Method # last.method)
               => last.result = [route |-> NoRoute, ps |-> <<>>, tsr |-> FALSE]
        /\ last.result.route # NoRoute
               => /\ last.result.route \in handled
                  /\ last.result.route.Method = last.method

C7_Witness ==
    /\ LookupCalled
    /\ last.method = "HEAD"
    /\ last.result.route # NoRoute
    /\ \E r \in handled : r.Method = "GET" /\ r.Path # last.result.route.Path

\* The arguments with which Handle must fail.
BadHandleArgs(method, path, handler) ==
    \/ method = ""
    \/ path = <<>>
    \/ path[1] # "/"
    \/ handler = NilHandler

\* C8: Handle(method, pattern, handler) fails fatally when the method is
\* empty, the pattern is empty or does not start with "/", or the handler is
\* nil, and leaves the route table as it was.
C8_HandlePreconditions ==
    [][(/\ last = Idle
        /\ last'.op = "Handle"
        /\ BadHandleArgs(last'.method, last'.path, last'.handler))
           => (last'.panic # "" /\ trees' = trees)]_vars

C8_Witness ==
    /\ last.op = "Handle"
    /\ last.method = "HEAD" /\ last.path = <<"/", "a">>
    /\ last.handler = NilHandler
    /\ last.panic = "handler must not be nil"
    /\ DOMAIN trees = {"GET"}

(***************************************************************************)
(* Serving through the Context pool: ServeHTTP, step by step.              *)
(***************************************************************************)
PoolPatterns == {<<"/", ":", "x">>, <<"/", "a">>, <<"/", ":", "x", "/", ":", "y">>}

PoolPaths == {<<"/", "a">>, <<"/", "b">>, <<"/", "b", "/", "a">>}

InitPool == Init /\ opts = DefaultOptions

\* The routes of the pool scenario are registered.
PoolHandle ==
    \E path \in PoolPatterns : Register("GET", path, HandlerOf("GET", path))

\* Serve: the setup is over, requests are accepted.
Freeze ==
    /\ phase = "setup"
    /\ last = Idle
    /\ phase' = "serving"
    /\ frozen' = trees
    /\ UNCHANGED <<middleware, trees, opts, added, handled, last, pool, workers, done>>

\* c := a.pool.Get().(*Context): a context put back earlier, or a new one.
Get(w) ==
    /\ phase = "serving"
    /\ workers[w].pc = "idle"
    /\ done < MaxServed
    /\ \E path \in PoolPaths, c \in pool \cup {NewContext} :
        /\ workers' = [workers EXCEPT ![w] =
                          [pc |-> "got", method |-> "GET", path |-> path, c |-> c]]
        /\ pool' = pool \ {c}
    /\ UNCHANGED <<middleware, trees, opts, added, handled, last, phase, frozen, done>>

\* c.reset()
Reset(w) ==
    /\ workers[w].pc = "got"
    /\ workers' = [workers EXCEPT ![w].pc = "ready", ![w].c = reset(@)]
    /\ UNCHANGED <<middleware, trees, opts, added, handled, last, phase, frozen, pool, done>>

\* a.dispatchRequest(c)
Dispatch(w) ==
    /\ workers[w].pc = "ready"
    /\ \E order \in RangeOrders(trees) :
        LET r == dispatchRequest(trees, opts, order, workers[w].c,
                                 workers[w].method, workers[w].path) IN
        workers' = [workers EXCEPT ![w] =
                       [pc |-> "served", method |-> @.method, path |-> @.path,
                        c |-> r.c, out |-> r.out]]
    /\ UNCHANGED <<middleware, trees, opts, added, handled, last, phase, frozen, pool, done>>

\* a.pool.Put(c)
Put(w) ==
    /\ workers[w].pc = "served"
    /\ pool' = pool \cup {workers[w].c}
    /\ workers' = [workers EXCEPT ![w] = IdleWorker]
    /\ done' = done + 1
    /\ UNCHANGED <<middleware, trees, opts, added, handled, last, phase, frozen>>

ServeHTTP(w) == Get(w) \/ Reset(w) \/ Dispatch(w) \/ Put(w)

NextPool == PoolHandle \/ Return \/ Freeze \/ \E w \in Workers : ServeHTTP(w)

SpecPool == InitPool /\ [][NextPool]_vars

\* The value occurs in the path as a run of consecutive bytes.
OccursIn(value, path) ==
    \E i \in 1..(Len(path) + 1) :
        /\ i + Len(value) <= Len(path) + 1
        /\ SubSeq(path, i, i + Len(value) - 1) = value

\* C9: in every request served through the pooled Context the handler sees
\* in c.Params exactly the bindings extracted from the path of that
\* request, none left over from an earlier use of the Context; reset
\* leaves the carrier with length zero.
C9_NoParamLeak ==
    \A w \in Workers :
        /\ workers[w].pc = "ready" => workers[w].c.Params.len = 0
        /\ workers[w].pc = "served" =>
               \A i \in 1..Len(workers[w].out) :
                   workers[w].out[i].kind = "handler" =>
                       /\ workers[w].out[i].params
                              = Lookup(trees, workers[w].method, workers[w].path).ps
                       /\ \A k \in 1..Len(workers[w].out[i].params) :
                              OccursIn(workers[w].out[i].params[k].Value,
                                       workers[w].path)

\* A context that carried two bindings is reused for a request with one.
C9_Witness ==
    \E w \in Workers :
        /\ workers[w].pc = "served"
        /\ Len(workers[w].out) = 1
        /\ workers[w].out[1].kind = "handler"
        /\ Len(workers[w].out[1].params) = 1
        /\ done > 0
        /\ \E v \in Workers \ {w} :
              /\ workers[v].pc = "ready"
              /\ Len(workers[v].c.Params.arr) = 2

(***************************************************************************)
(* Concurrent Lookup and allowed calls on the frozen route table, each     *)
(* call one read of the table at a time.                                   *)
(***************************************************************************)
ConcMethods == {"GET", "HEAD"}

ConcPatterns == {<<"/", "a">>, <<"/", "a", "/">>}

ConcPaths == {<<"/", "a">>, <<"/", "a", "/">>}

ConcHandle ==
    \E method \in ConcMethods, path \in ConcPatterns :
        Register(method, path, HandlerOf(method, path))

\* The calls that have started and have not been collected.
InFlight == Cardinality({w \in Workers : workers[w].pc # "idle"})

StartLookup(w) ==
    /\ phase = "serving"
    /\ workers[w].pc = "idle"
    /\ done + InFlight < MaxProbes
    /\ \E method \in ConcMethods, path \in ConcPaths :
        workers' = [workers EXCEPT ![w] =
                       [pc |-> "read", kind |-> "Lookup", method |-> method,
                        path |-> path]]
    /\ UNCHANGED <<middleware, trees, opts, added, handled, last, phase, frozen, pool, done>>

\* Lookup creating the tree of a method that has none.
ReadRoot_Create(w) ==
    /\ workers[w].pc = "read"
    /\ IF TreeOf(trees, workers[w].method) # NilNode
       THEN /\ workers' = [workers EXCEPT ![w].pc = "walk"]
            /\ trees' = trees
       ELSE /\ workers' = [workers EXCEPT ![w] =
                [pc |-> "done", kind |-> @.kind, method |-> @.method,
                 path |-> @.path,
                 result |-> [route |-> NoRoute, ps |-> <<>>, tsr |-> FALSE]]]
            /\ trees' = SetTree(trees, workers[w].method, EmptyNode)
    /\ UNCHANGED <<middleware, opts, added, handled, last, phase, frozen, pool, done>>

\* if root := r.trees[method]; root != nil
ReadRoot(w) ==
    /\ workers[w].pc = "read"
    /\ IF TreeOf(trees, workers[w].method) # NilNode
       THEN workers' = [workers EXCEPT ![w].pc = "walk"]
       ELSE workers' = [workers EXCEPT ![w] =
                [pc |-> "done", kind |-> @.kind, method |-> @.method,
                 path |-> @.path,
                 result |-> [route |-> NoRoute, ps |-> <<>>, tsr |-> FALSE]]]
    /\ UNCHANGED <<middleware, trees, opts, added, handled, last, phase, frozen, pool, done>>

\* return root.getValue(path): the nodes are read as they are now.
WalkTree(w) ==
    /\ workers[w].pc = "walk"
    /\ workers' = [workers EXCEPT ![w] =
           [pc |-> "done", kind |-> @.kind, method |-> @.method, path |-> @.path,
            result |-> getValue(trees[workers[w].method], workers[w].path)]]
    /\ UNCHANGED <<middleware, trees, opts, added, handled, last, phase, frozen, pool, done>>

StartAllowed(w) ==
    /\ phase = "serving"
    /\ workers[w].pc = "idle"
    /\ done + InFlight < MaxProbes
    /\ \E path \in {<<"/", "a">>, <<"*">>}, order \in RangeOrders(trees) :
        workers' = [workers EXCEPT ![w] =
                       [pc |-> "scan", kind |-> "allowed", method |-> "HEAD",
                        path |-> path, order |-> order, rest |-> order,
                        found |-> <<>>]]
    /\ UNCHANGED <<middleware, trees, opts, added, handled, last, phase, frozen, pool, done>>

\* One iteration of the range loop of allowed.
ScanStep(w) ==
    /\ workers[w].pc = "scan"
    /\ workers[w].rest # <<>>
    /\ workers' = [workers EXCEPT
           ![w].rest = Tail(@),
           ![w].found = IF Probe(trees, Head(workers[w].rest), workers[w].path,
                                 workers[w].method)
                        THEN Append(@, Head(workers[w].rest)) ELSE @]
    /\ UNCHANGED <<middleware, trees, opts, added, handled, last, phase, frozen, pool, done>>

\* The end of allowed: OPTIONS appended, the list sorted and joined.
FinishAllowed(w) ==
    /\ workers[w].pc = "scan"
    /\ workers[w].rest = <<>>
    /\ workers' = [workers EXCEPT ![w] =
           [pc |-> "done", kind |-> @.kind, method |-> @.method, path |-> @.path,
            order |-> @.order, result |-> Finish(@.found)]]
    /\ UNCHANGED <<middleware, trees, opts, added, handled, last, phase, frozen, pool, done>>

\* The caller takes the result.
Collect(w) ==
    /\ workers[w].pc = "done"
    /\ workers' = [workers EXCEPT ![w] = IdleWorker]
    /\ done' = done + 1
    /\ UNCHANGED <<middleware, trees, opts, added, handled, last, phase, frozen, pool>>

NextConc ==
    \/ ConcHandle \/ Return \/ Freeze
    \/ \E w \in Workers :
          \/ StartLookup(w) \/ ReadRoot(w) \/ WalkTree(w)
          \/ StartAllowed(w) \/ ScanStep(w) \/ FinishAllowed(w)
          \/ Collect(w)

SpecConc == InitPool /\ [][NextConc]_vars

\* What the call of worker w returns when it runs alone on the table t.
Sequential(t, w) ==
    IF workers[w].kind = "Lookup"
    THEN Lookup(t, workers[w].method, workers[w].path)
    ELSE allowed(t, workers[w].order, workers[w].path, workers[w].method)

\* C10: once the registration is over, every Lookup and allowed call that
\* runs interleaved with others returns what it returns when run alone, and
\* no call changes the route table or a node of a tree.
C10_ConcurrentReads ==
    phase = "serving" =>
        /\ trees = frozen
        /\ \A w \in Workers :
               workers[w].pc = "done" => workers[w].result = Sequential(frozen, w)

C10_Witness ==
    /\ workers["w1"].pc = "done" /\ workers["w1"].kind = "Lookup"
    /\ workers["w1"].result.route # NoRoute
    /\ workers["w2"].pc = "done" /\ workers["w2"].kind = "allowed"
    /\ workers["w2"].path = workers["w1"].path
    /\ workers["w2"].result = "GET, OPTIONS"

(***************************************************************************)
(* The trie of one method: registrations in every order, then lookups and  *)
(* case-insensitive recoveries on the tree they built.                     *)
(***************************************************************************)
TreePatterns ==
    {<<"/", "a">>, <<"/", "a", "/">>, <<"/", "A">>, <<"/", "a", "b">>,
     <<"/", ":", "x">>, <<"/", ":", "z">>, <<"/", ":", "x", "/">>,
     <<"/", ":", "x", "/", "a">>, <<"/", ":", "x", "/", ":", "z">>,
     <<"/", ":", "x", "/", ":", "x">>,
     <<"/", "*", "y">>, <<"/", "*", "y", "/", "a">>}

\* The same patterns under a second method.
OtherPatterns == {<<"/", ":", "z">>, <<"/", "*", "y">>}

TreePaths ==
    {<<>>, <<"/">>, <<"/", "a">>, <<"/", "a", "/">>, <<"/", "b">>,
     <<"/", "a", "b">>, <<"/", "A">>, <<"/", "/", "a">>,
     <<"/", "b", "/", "a">>, <<"/", "b", "/", "c">>, <<"/", "b", "/">>}

TreeHandle ==
    \/ \E path \in TreePatterns :
          RegisterWithin(MaxTreeRoutes, "GET", path, HandlerOf("GET", path))
    \/ \E path \in OtherPatterns :
          RegisterWithin(MaxTreeRoutes, "HEAD", path, HandlerOf("HEAD", path))

\* Router.Lookup on the tree the registrations built.
TreeLookup ==
    \E method \in {"GET", "HEAD"}, path \in TreePaths :
        /\ last = Idle
        /\ last' = [op |-> "Lookup", method |-> method, path |-> path,
                    result |-> Lookup(trees, method, path)]
        /\ UNCHANGED <<middleware, trees, opts, added, handled, serving>>

\* root.findCaseInsensitivePath(path, fixTrailingSlash) on the tree of GET.
TreeFind ==
    \E path \in TreePaths, fix \in BOOLEAN :
        /\ last = Idle
        /\ TreeOf(trees, "GET") # NilNode
        /\ last' = [op |-> "findCaseInsensitivePath", method |-> "GET",
                    path |-> path, fix |-> fix,
                    result |-> findCaseInsensitivePath(trees["GET"], path, fix)]
        /\ UNCHANGED <<middleware, trees, opts, added, handled, serving>>

NextTree == TreeHandle \/ TreeLookup \/ TreeFind \/ Return

SpecTree == InitPool /\ [][NextTree]_vars

(***************************************************************************)
(* Properties of the trie.                                                 *)
(***************************************************************************)
RouteOf(method, path) ==
    [Method |-> method, Path |-> path, Handler |-> HandlerOf(method, path)]

\* The patterns registered for the method.
PatternsOf(method) == {r.Path : r \in {h \in handled : h.Method = method}}

\* The last call is a Handle call with well-formed arguments that follows
\* only successful registrations of other routes.
FreshHandle ==
    /\ last.op = "Handle"
    /\ last.panic \in {"", "addRoute"}
    /\ added = 1 + Cardinality({h \in handled :
                       h.Method # last.method \/ h.Path # last.path})

\* The path is "/" followed by one non-empty segment without "/".
OneSegment(path) ==
    /\ Len(path) >= 2
    /\ path[1] = "/"
    /\ SegmentEnd(Tail(path)) = Len(path) - 1

StaticPattern == <<"/", "a">>

ParamPattern == <<"/", ":", "x">>

\* C11: a static pattern and a param pattern at the same tree position are
\* both registered, in either order; the static path is routed to the
\* static pattern and every other segment to the param pattern.
C11_AsClaimed ==
    /\ (/\ FreshHandle
        /\ last.method = "GET"
        /\ last.path \in {StaticPattern, ParamPattern}
        /\ PatternsOf("GET") \subseteq {StaticPattern, ParamPattern})
       => last.panic = ""
    /\ (/\ last.op = "Lookup"
        /\ last.method = "GET"
        /\ PatternsOf("GET") = {StaticPattern, ParamPattern}
        /\ OneSegment(last.path))
       => IF last.path = StaticPattern
          THEN last.result.route = RouteOf("GET", StaticPattern)
          ELSE /\ last.result.route = RouteOf("GET", ParamPattern)
               /\ last.result.ps = <<[Key |-> <<"x">>, Value |-> Tail(last.path)]>>

\* The orders in which the routes of the set S can be registered.
Orders(S) ==
    {q \in [1..Cardinality(S) -> S] :
        \A i, j \in 1..Cardinality(S) : i # j => q[i] # q[j]}

\* The root after the routes of q are added to it in turn; Conflict as soon
\* as one addition fails.
RECURSIVE Build(_, _)
Build(root, q) ==
    IF q = <<>> \/ root = Conflict THEN root
    ELSE Build(addRoute(root, Head(q).Path, Head(q)), Tail(q))

CatchAllNotLast(path) ==
    \E i, j \in 1..Len(path) : i < j /\ path[i] = "*" /\ path[j] = "/"

\* Every catchAll node of the tree of n is a leaf holding one segment.
RECURSIVE CatchAllLeaves(_)
CatchAllLeaves(n) ==
    /\ n.kind = "catchAll" =>
           /\ n.children = <<>>
           /\ \A i \in 1..Len(n.prefix) : n.prefix[i] # "/"
    /\ \A k \in 1..Len(n.children) : CatchAllLeaves(n.children[k])

\* C13: a pattern whose catch-all segment is followed by further characters
\* fails registration whatever was registered before, so no tree holds a
\* catchAll node that has children or is not the last segment of its route.
C13_CatchAllLast ==
    /\ (/\ last.op = "Handle"
        /\ last.panic \in {"", "addRoute"}
        /\ CatchAllNotLast(last.path))
       => last.panic = "addRoute"
    /\ \A h \in handled : ~CatchAllNotLast(h.Path)
    /\ \A m \in DOMAIN trees : CatchAllLeaves(trees[m])

\* The pattern is refused by a tree that already holds the catch-all.
C13_Witness ==
    /\ last.op = "Handle"
    /\ last.path = <<"/", "*", "y", "/", "a">>
    /\ last.panic = "addRoute"
    /\ PatternsOf("GET") = {<<"/", "*", "y">>}

\* The wildcard segment of p that starts at position i.
WildSegment(p, i) == SubSeq(p, i, i - 1 + SegmentEnd(DropFirst(p, i - 1)))

\* The patterns p and q agree up to a position where both have a wildcard,
\* and the two wildcards differ in name or in kind.
Clashes(p, q) ==
    \E i \in 1..Len(p) :
        /\ i <= Len(q)
        /\ SubSeq(p, 1, i - 1) = SubSeq(q, 1, i - 1)
        /\ p[i] \in {":", "*"}
        /\ q[i] \in {":", "*"}
        /\ WildSegment(p, i) # WildSegment(q, i)

\* C14: a pattern that puts another parameter name, or a catch-all against
\* a param, at the tree position of a pattern registered for the same
\* method fails registration, so no method ever holds two such patterns;
\* the routes of the other methods never make a registration fail.
C14_WildcardConflict ==
    /\ (/\ last.op = "Handle"
        /\ last.panic \in {"", "addRoute"}
        /\ \E h \in handled :
              h.Method = last.method /\ Clashes(h.Path, last.path))
       => last.panic = "addRoute"
    /\ \A g, h \in handled : g.Method = h.Method => ~Clashes(g.Path, h.Path)
    /\ (/\ FreshHandle
        /\ PatternsOf(last.method) \subseteq {last.path}
        /\ ~CatchAllNotLast(last.path))
       => last.panic = ""

\* /:z is refused where /:x is registered.
C14_Witness ==
    /\ last.op = "Handle"
    /\ last.method = "GET"
    /\ last.path = <<"/", ":", "z">>
    /\ last.panic = "addRoute"
    /\ handled = {RouteOf("GET", ParamPattern)}

\* The names of the :name and *name segments of the pattern, left to right.
RECURSIVE Names(_)
Names(p) ==
    IF p = <<>> THEN <<>>
    ELSE IF p[1] \in {":", "*"}
    THEN <<SubSeq(p, 2, SegmentEnd(p))>> \o Names(DropFirst(p, SegmentEnd(p)))
    ELSE Names(Tail(p))

\* The pattern with its :name and *name segments replaced, left to right,
\* by the values.
RECURSIVE Fill(_, _)
Fill(p, values) ==
    IF p = <<>> THEN <<>>
    ELSE IF p[1] \in {":", "*"}
    THEN IF values = <<>> THEN p
         ELSE Head(values) \o Fill(DropFirst(p, SegmentEnd(p)), Tail(values))
    ELSE <<p[1]>> \o Fill(Tail(p), values)

\* The parameters carry the names of the pattern in the order of the
\* pattern, and their values are the bytes of the path at those places.
BindsInOrder(ps, pattern, path) ==
    /\ Len(ps) = Len(Names(pattern))
    /\ \A i \in 1..Len(ps) : ps[i].Key = Names(pattern)[i]
    /\ Fill(pattern, [i \in 1..Len(ps) |-> ps[i].Value]) = path

UniqueKeys(ps) == \A i, j \in 1..Len(ps) : i # j => ps[i].Key # ps[j].Key

\* C15: a successful lookup returns one {key, value} pair per :name/*name
\* of the matched pattern, with unique keys, in the order of the pattern,
\* each value being the bytes of the path consumed at that position.
C15_AsClaimed ==
    (last.op = "Lookup" /\ last.result.route # NoRoute) =>
        /\ BindsInOrder(last.result.ps, last.result.route.Path, last.path)
        /\ UniqueKeys(last.result.ps)

\* The markers (":" or "*") of the wildcard segments of the pattern, left
\* to right.
RECURSIVE Markers(_)
Markers(p) ==
    IF p = <<>> THEN <<>>
    ELSE IF p[1] \in {":", "*"}
    THEN <<p[1]>> \o Markers(DropFirst(p, SegmentEnd(p)))
    ELSE Markers(Tail(p))

\* C16: in every successful lookup each value bound to a :name parameter is
\* a non-empty segment without "/", so a path with an empty segment at a
\* param position returns no route.
C16_AsClaimed ==
    (last.op = "Lookup" /\ last.result.route # NoRoute) =>
        \A i \in 1..Len(last.result.ps) :
            (/\ i <= Len(Markers(last.result.route.Path))
             /\ Markers(last.result.route.Path)[i] = ":")
            => /\ last.result.ps[i].Value # <<>>
               /\ \A k \in 1..Len(last.result.ps[i].Value) :
                      last.result.ps[i].Value[k] # "/"

\* The route that serves the path of the last lookup once its trailing "/"
\* is toggled.
ToggledRoute == Lookup(trees, last.method, ToggleSlash(last.path)).route

\* C17 as claimed: when a pattern is registered and the same pattern with
\* its final "/" toggled is not, the lookup of a path of the pattern with
\* the slash toggled returns no route and recommends the trailing slash.
C17_AsClaimed ==
    (/\ last.op = "Lookup"
     /\ ToggledRoute # NoRoute
     /\ ToggleSlash(ToggledRoute.Path) \notin PatternsOf(last.method))
    => /\ last.result.route = NoRoute
       /\ last.result.tsr

\* C17: when a pattern is registered and the same pattern with its final
\* "/" toggled is not, the lookup of a path of the pattern with the slash
\* toggled returns no route and recommends the trailing slash, unless a
\* registered pattern serves the toggled path itself: then its route is
\* returned without recommendation.
C17_TrailingSlashRecommended ==
    (/\ last.op = "Lookup"
     /\ ToggledRoute # NoRoute
     /\ ToggleSlash(ToggledRoute.Path) \notin PatternsOf(last.method))
    => IF Lookup(trees, last.method, last.path).route = NoRoute
       THEN last.result.route = NoRoute /\ last.result.tsr
       ELSE last.result.route \in handled /\ ~last.result.tsr

\* Only /a/ is registered and /a is looked up.
C17_Witness ==
    /\ last.op = "Lookup"
    /\ last.method = "GET"
    /\ last.path = <<"/", "a">>
    /\ handled = {RouteOf("GET", <<"/", "a", "/">>)}
    /\ last.result.route = NoRoute
    /\ last.result.tsr

C19_AsClaimed ==
    (last.op = "findCaseInsensitivePath" /\ last.result.found) =>
        LET fresh == Lookup(trees, "GET", last.result.path) IN
        /\ \/ LowerPath(last.result.path) = LowerPath(last.path)
           \/ /\ last.fix
              /\ LowerPath(last.result.path) = LowerPath(ToggleSlash(last.path))
        /\ fresh.route # NoRoute
        /\ BindsInOrder(fresh.ps, fresh.route.Path, last.result.path)

(***************************************************************************)
(* The Path Normalizer on every short path.                                *)
(***************************************************************************)
PathBytes == {"/", ".", "a"}

LongExample == <<"/", "a", "/", "/", "b", "/", ".", ".", "/", "c">>

CleanInputs ==
    UNION {[1..n -> PathBytes] : n \in 0..MaxLen} \cup {LongExample}

\* CleanPath(path), as dispatchRequest calls it.
CleanCall ==
    \E path \in CleanInputs :
        /\ last = Idle
        /\ last' = [op |-> "CleanPath", path |-> path, result |-> CleanPath(path)]
        /\ UNCHANGED <<middleware, trees, opts, added, handled, serving>>

NextClean == CleanCall \/ Return

SpecClean == InitPool /\ [][NextClean]_vars

\* C20: the normalized path is left as it is by a second normalization;
\* "/a//b/../c" is normalized to "/a/c" and the empty path to "/".
C20_Idempotent ==
    last.op = "CleanPath" =>
        /\ CleanPath(last.result) = last.result
        /\ last.path = LongExample => last.result = <<"/", "a", "/", "c">>
        /\ last.path = <<>> => last.result = <<"/">>

\* A path with "..", "." and doubled slashes that ends in "/".
C20_Witness ==
    /\ last.op = "CleanPath"
    /\ last.path = <<"/", ".", ".", "/">>
    /\ last.result = <<"/">>

\* The bytes i..j of s are one whole segment: "/" or the end of s on both
\* sides.
WholeSegment(s, i, j) ==
    /\ (i = 1 \/ s[i - 1] = "/")
    /\ (j = Len(s) \/ s[j + 1] = "/")

\* C21: the normalized path starts with "/" and has no empty segment, no
\* "." segment and no ".." segment (a ".." at the root is dropped, so the
\* path never refers above the root), and it ends with "/" whenever the
\* input ends with "/".
C21_Normalized ==
    last.op = "CleanPath" =>
        LET r == last.result IN
        /\ Len(r) >= 1 /\ r[1] = "/"
        /\ \A i \in 1..(Len(r) - 1) : ~(r[i] = "/" /\ r[i + 1] = "/")
        /\ \A i \in 1..Len(r) : r[i] = "." => ~WholeSegment(r, i, i)
        /\ \A i \in 1..(Len(r) - 1) :
              (r[i] = "." /\ r[i + 1] = ".") => ~WholeSegment(r, i, i + 1)
        /\ (last.path # <<>> /\ Last(last.path) = "/") => Last(r) = "/"

\* A relative path with a "." segment and a trailing "/".
C21_Witness ==
    /\ last.op = "CleanPath"
    /\ last.path = <<"a", "/", ".", "/">>
    /\ last.result = <<"/", "a", "/">>

(***************************************************************************)
(* Middleware stacks: slices over backing arrays, as append builds them.   *)
(***************************************************************************)
\* An unused slot of a backing array.
NilSlot == "nil"

\* []MiddlewareHandlerFunc{} and the zero value of the field stack.
EmptySlice == [arr |-> 0, len |-> 0, cap |-> 0]

\* The elements the slice sl shows of the arrays A.
Elements(A, sl) == IF sl.len = 0 THEN <<>> ELSE SubSeq(A[sl.arr], 1, sl.len)

\* append(sl, mw...): in place when the capacity suffices, else into a new
\* array of at least twice the capacity.
GoAppend(A, sl, mw) ==
    LET needed == sl.len + Len(mw)
        newcap == IF needed > 2 * sl.cap THEN needed ELSE 2 * sl.cap
    IN  IF mw = <<>> THEN [arrays |-> A, slice |-> sl]
        ELSE IF needed <= sl.cap
        THEN [arrays |-> [A EXCEPT ![sl.arr] =
                            [i \in 1..sl.cap |->
                                IF i > sl.len /\ i <= needed THEN mw[i - sl.len]
                                ELSE @[i]]],
              slice |-> [sl EXCEPT !.len = needed]]
        ELSE [arrays |-> Append(A, [i \in 1..newcap |->
                            IF i <= sl.len THEN A[sl.arr][i]
                            ELSE IF i <= needed THEN mw[i - sl.len]
                            ELSE NilSlot]),
              slice |-> [arr |-> Len(A) + 1, len |-> needed, cap |-> newcap]]

\* mws.Append(mw...) on the stack s.
StackAppend(A, S, s, mw) ==
    LET r == GoAppend(A, S[s], mw) IN
    [arrays |-> r.arrays, stacks |-> [S EXCEPT ![s] = r.slice]]

\* mws.Clear()
StackClear(A, S, s) == [arrays |-> A, stacks |-> [S EXCEPT ![s] = EmptySlice]]

\* Clone taking over the slice of the original instead of copying it.
StackClone_Shared(A, S, s, mw) ==
    LET r == GoAppend(A, S[s], mw) IN
    [arrays |-> r.arrays, stacks |-> Append(S, r.slice)]

\* mws.Clone(mw...): the new stack is the last one of the result.
StackClone(A, S, s, mw) ==
    LET copy == GoAppend(A, EmptySlice, Elements(A, S[s]))
        r == GoAppend(copy.arrays, copy.slice, mw)
    IN  [arrays |-> r.arrays, stacks |-> Append(S, r.slice)]

\* The contents of the stack s.
Contents(s) == Elements(arrays, stacks[s])

(***************************************************************************)
(* The middleware chain of a route.                                        *)
(***************************************************************************)
StatusInternalServerError == 500

\* The middlewares of the model: "A" is DoSomething (code, next(c), code,
\* the error of next returned); "W" calls next(c) the same way and returns
\* nil whatever next returned; "S" returns nil and "F" an error, both
\* without calling next.
Middlewares == {"A", "W", "S", "F"}

CallsNext(mw) == mw \in {"A", "W"}

Before(mw, pos) == [mw |-> mw, pos |-> pos, at |-> "before"]

After(mw, pos) == [mw |-> mw, pos |-> pos, at |-> "after"]

HandlerRun == [mw |-> "Handler", pos |-> 0, at |-> "run"]

\* for i := len(mws.stack) - 1; i >= 0; i-- { h = mws.stack[i](h) }: the
\* chain h as the middlewares it runs, outermost first; i counts from 1.
RECURSIVE Wrap(_, _, _)
Wrap(stk, i, h) ==
    IF i = 0 THEN h
    ELSE Wrap(stk, i - 1, <<[mw |-> stk[i], pos |-> i]>> \o h)

\* h(c): what runs, in order, and the error returned ("" for nil). The
\* innermost handler of the chain does nothing and returns nil.
RECURSIVE Call(_)
Call(h) ==
    IF h = <<>> THEN [trace |-> <<>>, err |-> ""]
    ELSE LET m == Head(h) IN
         IF CallsNext(m.mw)
         THEN LET r == Call(Tail(h)) IN
              [trace |-> <<Before(m.mw, m.pos)>> \o r.trace
                            \o <<After(m.mw, m.pos)>>,
               err |-> IF m.mw = "A" THEN r.err ELSE ""]
         ELSE [trace |-> <<Before(m.mw, m.pos)>>,
               err |-> IF m.mw = "F" THEN "F" ELSE ""]

\* MiddlewareStack.handle on the stack contents stk.
handle(stk) == Call(Wrap(stk, Len(stk), <<>>))

\* HandleRequest running the Handler whatever the chain returned.
HandleRequest_Always(stk, handler) ==
    LET r == handle(stk) IN
    [trace |-> Append(r.trace, HandlerRun),
     result |-> [kind |-> "action", handler |-> handler]]

\* Route.HandleRequest: what runs, in order, and the ActionResult.
HandleRequest(stk, handler) ==
    LET r == handle(stk) IN
    IF r.err # ""
    THEN [trace |-> r.trace,
          result |-> [kind |-> "error", code |-> StatusInternalServerError,
                      err |-> r.err]]
    ELSE [trace |-> Append(r.trace, HandlerRun),
          result |-> [kind |-> "action", handler |-> handler]]

\* The arguments of the Append calls and of the Clone calls.
AppendArgs == {<<"A">>, <<"W">>, <<"S">>, <<"F">>, <<"A", "W">>}

CloneArgs == {<<>>, <<"W">>}

\* The stacks and arrays r are within the bounds of the model.
Bounded(r) ==
    /\ Len(r.arrays) <= MaxArrays
    /\ Len(r.stacks) <= MaxStacks
    /\ \A s \in DOMAIN r.stacks : r.stacks[s].len <= MaxStackLen

AppendCall ==
    \E s \in DOMAIN stacks, mw \in AppendArgs :
        LET r == StackAppend(arrays, stacks, s, mw) IN
        /\ last = Idle
        /\ Bounded(r)
        /\ arrays' = r.arrays
        /\ stacks' = r.stacks
        /\ last' = [op |-> "Append", stack |-> s, mw |-> mw]
        /\ UNCHANGED <<trees, opts, added, handled, serving>>

ClearCall ==
    \E s \in DOMAIN stacks :
        LET r == StackClear(arrays, stacks, s) IN
        /\ last = Idle
        /\ arrays' = r.arrays
        /\ stacks' = r.stacks
        /\ last' = [op |-> "Clear", stack |-> s]
        /\ UNCHANGED <<trees, opts, added, handled, serving>>

CloneCall ==
    \E s \in DOMAIN stacks, mw \in CloneArgs :
        LET r == StackClone(arrays, stacks, s, mw) IN
        /\ last = Idle
        /\ Bounded(r)
        /\ arrays' = r.arrays
        /\ stacks' = r.stacks
        /\ last' = [op |-> "Clone", stack |-> s, mw |-> mw,
                    clone |-> Len(r.stacks)]
        /\ UNCHANGED <<trees, opts, added, handled, serving>>

\* A request for a route whose Mws is the stack s.
HandleRequestCall ==
    \E s \in DOMAIN stacks :
        LET r == HandleRequest(Contents(s), "h") IN
        /\ last = Idle
        /\ last' = [op |-> "HandleRequest", stack |-> s, stk |-> Contents(s),
                    trace |-> r.trace, result |-> r.result]
        /\ UNCHANGED <<middleware, trees, opts, added, handled, serving>>

NextMw == AppendCall \/ ClearCall \/ CloneCall \/ HandleRequestCall \/ Return

SpecMw == InitPool /\ [][NextMw]_vars

(***************************************************************************)
(* Properties of the middleware chain.                                     *)
(***************************************************************************)
\* The request of the last call went through a stack of n >= 1 middlewares
\* that all call next(c) and return its error, like DoSomething.
OnionStack ==
    /\ last.op = "HandleRequest"
    /\ last.stk # <<>>
    /\ \A i \in 1..Len(last.stk) : last.stk[i] = "A"

\* C22: one request runs the code before next(c) of the middlewares in the
\* order they were appended, then the route handler, then the code after
\* next(c) of the middlewares in reverse order; no code after next(c) runs
\* before the route handler has run.
C22_AsClaimed ==
    OnionStack =>
        LET n == Len(last.stk) IN
        last.trace = [i \in 1..(2 * n + 1) |->
                         IF i <= n THEN Before("A", i)
                         ELSE IF i = n + 1 THEN HandlerRun
                         ELSE After("A", 2 * n + 2 - i)]

\* The middleware at position i ran.
Ran(i) == \E k \in 1..Len(last.trace) : last.trace[k].pos = i

\* Number of times the route Handler ran.
HandlerRuns == Cardinality({k \in 1..Len(last.trace) : last.trace[k] = HandlerRun})

\* The result is ErrorResult(500, err) and the Handler did not run.
Refused ==
    /\ last.result.kind = "error"
    /\ last.result.code = StatusInternalServerError
    /\ HandlerRuns = 0

\* A middleware that returns without calling next keeps every middleware
\* appended after it from running.
LaterSkipped ==
    \A i, j \in 1..Len(last.stk) :
        (i < j /\ ~CallsNext(last.stk[i])) => ~Ran(j)

\* C27 as claimed: when a middleware of the stack returns an error the
\* Handler is not invoked and the result is ErrorResult 500.
C27_AsClaimed ==
    last.op = "HandleRequest" =>
        /\ (\E i \in 1..Len(last.stk) : last.stk[i] = "F" /\ Ran(i)) => Refused
        /\ last.result.kind = "action" => HandlerRuns = 1
        /\ LaterSkipped

\* The chain returns an error: a middleware returns one without calling
\* next and every middleware before it returns the error of next.
ChainFails ==
    \E i \in 1..Len(last.stk) :
        /\ last.stk[i] = "F"
        /\ \A k \in 1..(i - 1) : last.stk[k] = "A"

\* C27: when the middleware chain returns an error (a middleware returns
\* one and every middleware before it passes it on) the Handler is not
\* invoked and the result is ErrorResult 500; otherwise the Handler is
\* invoked exactly once, after the chain; a middleware that returns without
\* calling next keeps every later-appended middleware from running.
C27_ChainError ==
    last.op = "HandleRequest" =>
        /\ IF ChainFails THEN Refused
           ELSE /\ last.result = [kind |-> "action", handler |-> "h"]
                /\ HandlerRuns = 1
                /\ Last(last.trace) = HandlerRun
        /\ LaterSkipped

\* The second middleware fails, the first passes the error on, the third
\* never runs.
C27_Witness ==
    /\ last.op = "HandleRequest"
    /\ last.stk = <<"A", "F", "W">>
    /\ Refused
    /\ last.trace = <<Before("A", 1), Before("F", 2), After("A", 1)>>

(***************************************************************************)
(* Invariants of the trees.                                                *)
(***************************************************************************)
WildcardFree(p) == \A i \in 1..Len(p) : p[i] \notin {":", "*"}

\* C23: every wildcard-free pattern registered so far, looked up as a path,
\* returns its own route and no parameters: later insertions, with their
\* node splits and child re-sorting, lose or re-bind no route.
C23_RoutesKept ==
    \A h \in handled :
        WildcardFree(h.Path) =>
            LET r == Lookup(trees, h.Method, h.Path) IN
            /\ r.route = h
            /\ r.ps = <<>>

\* /A was split off the root by /ab, which was split by /a/: the child
\* "a" now holds two routes and was moved in front of the child "A".
C23_Witness ==
    /\ last.op = "Handle"
    /\ last.panic = ""
    /\ last.path = <<"/", "a", "/">>
    /\ PatternsOf("GET") = {<<"/", "A">>, <<"/", "a", "b">>, <<"/", "a", "/">>}
    /\ trees["GET"].indices = <<"a", "A">>

\* The static children of n are indexed by their pairwise distinct first
\* bytes, at most one child more follows them, a param or catchAll node,
\* and the same holds below n.
RECURSIVE WellFormed(_)
WellFormed(n) ==
    LET ns == Len(n.indices) IN
    /\ Len(n.children) \in {ns, ns + 1}
    /\ \A k \in 1..ns :
          /\ n.children[k].kind = "static"
          /\ n.children[k].prefix # <<>>
          /\ n.children[k].prefix[1] = n.indices[k]
    /\ \A j, k \in 1..ns : j # k => n.indices[j] # n.indices[k]
    /\ Len(n.children) = ns + 1 => Last(n.children).kind \in {"param", "catchAll"}
    /\ \A k \in 1..Len(n.children) : WellFormed(n.children[k])

\* C24: in every tree built by registrations each node's static children
\* have pairwise distinct first bytes, which are the bytes of its indices in
\* the order of the children, and a node has at most one param or catchAll
\* child, the last of its children.
C24_NodeShape == \A m \in DOMAIN trees : WellFormed(trees[m])

\* A root whose child "a" gained a second route and was moved in front of "A".
C24_Witness ==
    /\ "GET" \in DOMAIN trees
    /\ trees["GET"].indices = <<"a", "A">>
    /\ Len(trees["GET"].children) = 2
    /\ trees["GET"].children[1].priority = 2

(***************************************************************************)
(* A registration that fails inside addRoute.                              *)
(***************************************************************************)
\* C25: a Handle call that fails inside addRoute leaves the route table as
\* it was, so a method has a tree, and is listed by Allowed("*", x), only
\* if a route was registered for it successfully.
C25_AsClaimed ==
    /\ \A m \in DOMAIN trees : \E h \in handled : h.Method = m
    /\ (AllowedCalled /\ last.path = <<"*">> /\ handled = {}) =>
            last.allow = ""

(***************************************************************************)
(* Requests that dispatchRequest never redirects.                          *)
(***************************************************************************)
\* The methods routes are registered for here: CONNECT has a tree.
ConnectMethods == {"CONNECT", "GET"}

\* The root pattern and patterns that make a redirect possible.
ConnectPatterns ==
    {<<"/">>, <<"/", "a">>, <<"/", "a", "/">>, <<"/", ":", "x", "/">>}

ConnectHandle ==
    \E method \in ConnectMethods, path \in ConnectPatterns :
        Register(method, path, HandlerOf(method, path))

NextConnect == ConnectHandle \/ DispatchCall \/ Return

SpecConnect == Init /\ [][NextConnect]_vars

\* The requests exempt from redirects.
Exempt(t, method, path) ==
    \/ method = "CONNECT"
    \/ path = <<"/">>
    \/ method \notin DOMAIN t

HasRedirect(out) == \E i \in 1..Len(out) : out[i].kind = "redirect"

\* C26: dispatchRequest issues no redirect for a CONNECT request, for the
\* path "/" or for a method without tree; without an exact match such a
\* request ends in one 405 or one 404 response.
C26_NoRedirect ==
    (Dispatched /\ Exempt(trees, last.method, last.path)) =>
        /\ ~HasRedirect(last.out)
        /\ LastLookup.route = NoRoute =>
              /\ Len(last.out) = 1
              /\ last.out[1].kind = "error"
              /\ last.out[1].code \in {StatusMethodNotAllowed, StatusNotFound}

\* CONNECT /a with the routes CONNECT /a/ and GET /a, the redirects enabled:
\* the trailing slash is recommended and the answer is 405.
C26_Witness ==
    /\ Dispatched
    /\ last.method = "CONNECT" /\ last.path = <<"/", "a">>
    /\ opts.RedirectTrailingSlash /\ opts.RedirectFixedPath
    /\ PatternsOf("CONNECT") = {<<"/", "a", "/">>}
    /\ PatternsOf("GET") = {<<"/", "a">>}
    /\ Lookup(trees, "CONNECT", <<"/", "a">>).tsr
    /\ last.out[1].code = StatusMethodNotAllowed

(***************************************************************************)
(* Clone and the stacks it separates.                                      *)
(***************************************************************************)
\* C28: Clone(mw...) returns a stack holding the entries of the original
\* followed by mw and leaves the original as it was; afterwards an Append
\* or a Clear on one stack leaves the contents of every other stack, the
\* clone or the original, unchanged.
C28_CloneIndependent ==
    [][/\ (last = Idle /\ last'.op = "Clone") =>
            /\ Elements(arrays', stacks'[last'.clone]) =
                    Contents(last'.stack) \o last'.mw
            /\ \A t \in DOMAIN stacks : Contents(t)' = Contents(t)
       /\ (last = Idle /\ last'.op \in {"Append", "Clear"}) =>
            \A t \in DOMAIN stacks \ {last'.stack} : Contents(t)' = Contents(t)
      ]_vars

\* The original was cleared after it was cloned with one more entry.
C28_Witness ==
    /\ last.op = "Clear"
    /\ last.stack = 1
    /\ Len(stacks) = 2
    /\ Contents(1) = <<>>
    /\ Contents(2) = <<"A", "W", "W">>

====
